---- MODULE Spec2Model ----
(***************************************************************************)
(* appimagelint: the orchestrator loop of cli.run and the generator        *)
(* IconsCheck.run, as one state machine.                                   *)
(*                                                                         *)
(* Strings are sequences of tokens.  A token is either one character       *)
(* ("a", "/", ".", "x", a digit, the newline NL) or a character group that *)
(* the code only ever treats as a unit ("Icon=", "png", "apps", a theme    *)
(* name); no group that is matched or split contains a digit, an "x", a    *)
(* "." or a "/" ("xpm" is only ever compared), so matching and splitting   *)
(* on tokens is matching and splitting on characters.                      *)
(* Python's None is the empty sequence where the value is otherwise a      *)
(* non-empty sequence (an icon name, a resolution tuple).                  *)
(***************************************************************************)
EXTENDS Integers, Sequences, FiniteSets, TLC

VARIABLES
    args,                       \* parsed command line: [path, json_report]
    pc,                         \* where cli.run / the suspended generator stands
    path_idx,                   \* position of the `for path` loop
    check_idx,                  \* checks of the current bundle already started
    results,                    \* results[path][check]: the Results collected
    exit_status,                \* NotExited, or the status the process ended with
    report_written,             \* JSONReport.write has run
    mounts,                     \* number of mounts currently held
    interrupted,                \* a KeyboardInterrupt has been delivered
    generator,                  \* the IconsCheck.run generator object
    desktop_files,              \* IconsCheck.run: glob of *.desktop
    desktop_file_contents,      \* IconsCheck.run: text of desktop_files[0]
    main_icon_name,             \* IconsCheck.run: the Icon= value, NoName for None
    root_dir,                   \* the bundle root as the root-icon glob saw it
    root_icon_valid,            \* IconsCheck.run local
    dotdiricon,                 \* decoded size of .DirIcon as read
    dotdiricon_valid,           \* IconsCheck.run local
    abs_path,                   \* IconsCheck.run: the theme file of this iteration
    nfiles,                     \* theme files iterated so far
    rel_path_bound,             \* IconsCheck.run: local rel_path has been assigned
    other_icons_checks_success  \* IconsCheck.run local

vars == <<args, pc, path_idx, check_idx, results, exit_status, report_written,
          mounts, interrupted, generator, desktop_files, desktop_file_contents,
          main_icon_name, root_dir, root_icon_valid, dotdiricon,
          dotdiricon_valid, abs_path, nfiles, rel_path_bound,
          other_icons_checks_success>>

---------------------------------------------------------------------------
(* Bounds *)

MaxTextLen == 4      \* tokens in a desktop file (parsing specification)
MaxThemeFiles == 2   \* files the usr/share/icons glob returns

---------------------------------------------------------------------------
(* Values *)

NoName == <<>>       \* main_icon_name = None
NoRes == <<>>        \* _get_icon_res returned None
Unset == <<"unset">> \* a local that no live code has assigned
NotExited == <<>>    \* the process is still running; <<n>> is exit status n

NL == "\n"
ICON == "Icon="
SEP == "/"
DOT == "."

Min(S) == CHOOSE m \in S : \A n \in S : m <= n
Max(S) == CHOOSE m \in S : \A n \in S : m >= n

_VALID_RESOLUTIONS == {8, 16, 32, 48, 56, 64, 128, 192, 256, 384, 512}

known_image_exts == {<<"png">>, <<"xpm">>, <<"svg">>, <<"jpg">>}

---------------------------------------------------------------------------
(* re.search(r"Icon=(.+)", text): "." matches any character but a newline,   *)
(* the search is not anchored and takes the leftmost match.                *)

RECURSIVE LineRest(_, _)
LineRest(text, p) ==
    IF p > Len(text) \/ text[p] = NL
    THEN <<>>
    ELSE <<text[p]>> \o LineRest(text, p + 1)

MatchStarts(text) ==
    {p \in 1..Len(text) : text[p] = ICON /\ LineRest(text, p + 1) # <<>>}

ExtractIconName(text) ==
    IF MatchStarts(text) = {}
    THEN NoName
    ELSE LineRest(text, Min(MatchStarts(text)) + 1)

---------------------------------------------------------------------------
(* os.path and glob on token strings *)

\* op.splitext: the extension starts at the last dot, provided some
\* character other than a dot precedes it.
splitext(fname) ==
    LET dots == {i \in 1..Len(fname) : fname[i] = DOT}
        d == IF dots = {} THEN 0 ELSE Max(dots)
    IN  IF d = 0 \/ (\A j \in 1..(d - 1) : fname[j] = DOT)
        THEN <<fname, <<>>>>
        ELSE <<SubSeq(fname, 1, d - 1), SubSeq(fname, d, Len(fname))>>

\* str.lstrip(".")
RECURSIVE lstrip_dot(_)
lstrip_dot(s) ==
    IF s # <<>> /\ Head(s) = DOT THEN lstrip_dot(Tail(s)) ELSE s

\* op.basename of a path held as its sequence of components
basename(path) == path[Len(path)]

\* "/" in main_icon_name
ContainsSep(name) == \E i \in 1..Len(name) : name[i] = SEP

\* glob.glob(op.join(mountpoint, glob.escape(name) + ".*")): the escaped name
\* matches itself only, "*" matches any rest, and a leading dot of a file
\* name is matched only by a leading dot of the pattern.
GlobRootIcons(dir, name) ==
    {f \in DOMAIN dir :
        /\ Len(f) >= Len(name) + 1
        /\ SubSeq(f, 1, Len(name)) = name
        /\ f[Len(name) + 1] = DOT
        /\ (f[1] = DOT => name[1] = DOT)}

\* the list comprehension of lines 84-85
FilterKnownExts(files) ==
    {f \in files : lstrip_dot(splitext(f)[2]) \in known_image_exts}

\* op.relpath(abs_path, op.join(mountpoint, "usr/share/icons")).split("/"),
\* abs_path being held relative to the mountpoint
IconsRoot == <<(<<"usr">>), (<<"share">>), (<<"icons">>)>>
split_rel_path(path) == SubSeq(path, Len(IconsRoot) + 1, Len(path))

---------------------------------------------------------------------------
(* extract_res_from_path_component: tuple([int(i) for i in s.split("x")]) *)

Digits == {"0", "1", "2", "3", "4", "5", "6", "7", "8", "9"}

DigitVal(d) ==
    CASE d = "0" -> 0 [] d = "1" -> 1 [] d = "2" -> 2 [] d = "3" -> 3
      [] d = "4" -> 4 [] d = "5" -> 5 [] d = "6" -> 6 [] d = "7" -> 7
      [] d = "8" -> 8 [] d = "9" -> 9

\* str.split("x")
RECURSIVE split_x(_)
split_x(s) ==
    LET xs == {i \in 1..Len(s) : s[i] = "x"}
    IN  IF xs = {}
        THEN <<s>>
        ELSE <<SubSeq(s, 1, Min(xs) - 1)>>
                 \o split_x(SubSeq(s, Min(xs) + 1, Len(s)))

\* int(s) of a string of decimal digits; ValueError otherwise
IntRaises(s) == s = <<>> \/ \E i \in 1..Len(s) : s[i] \notin Digits

RECURSIVE IntValue(_)
IntValue(s) ==
    IF s = <<>> THEN 0
    ELSE 10 * IntValue(SubSeq(s, 1, Len(s) - 1)) + DigitVal(s[Len(s)])

\* the function raises when any part is no integer
ExtractRaises(comp) ==
    \E i \in 1..Len(split_x(comp)) : IntRaises(split_x(comp)[i])

extract_res_from_path_component(comp) ==
    [i \in 1..Len(split_x(comp)) |-> IntValue(split_x(comp)[i])]

---------------------------------------------------------------------------
(* _get_icon_res and _check_icon_for_valid_resolution.  `size` is what       *)
(* Image.open would report for the file (NoRes when it cannot be opened);   *)
(* `swallowed` says that a KeyboardInterrupt arrived inside the try block,  *)
(* where the bare except catches it like any decoding error.               *)

_get_icon_res(size, swallowed) == IF swallowed THEN NoRes ELSE size

_check_icon_for_valid_resolution(size, swallowed) ==
    LET res == _get_icon_res(size, swallowed)
    IN  IF res = NoRes
        THEN FALSE
        ELSE res[1] \in _VALID_RESOLUTIONS /\ res[2] \in _VALID_RESOLUTIONS

---------------------------------------------------------------------------
(* IconsCheck.run, root icon: lines 58-95 *)

\* all(iterable)
all(list) == \A i \in 1..Len(list) : list[i]

\* The list of line 90 after the loop of lines 91-92: the loop assigns each
\* check to `valid` and appends nothing.
main_icon_check_results(appdir_root_icons) == <<>>

\* RootIconValid with line 63 assuming the icon good until proven bad
RootIconValidAssumedGood(name, dir) ==
    IF name = NoName THEN TRUE
    ELSE IF ContainsSep(name) THEN TRUE
    ELSE LET found == GlobRootIcons(dir, name)
         IN  IF found = {}
             THEN FALSE
             ELSE all(main_icon_check_results(FilterKnownExts(found)))

RootIconValid(name, dir) ==
    IF name = NoName THEN FALSE
    ELSE IF ContainsSep(name) THEN FALSE
    ELSE LET found == GlobRootIcons(dir, name)
         IN  IF found = {}
             THEN FALSE
             ELSE all(main_icon_check_results(FilterKnownExts(found)))

\* whether line 92 runs at all, so that _get_icon_res can swallow an interrupt
RootIconDecodes(name, dir) ==
    /\ name # NoName
    /\ ~ContainsSep(name)
    /\ FilterKnownExts(GlobRootIcons(dir, name)) # {}

---------------------------------------------------------------------------
(* IconsCheck.run, one iteration of the loop of lines 111-176.             *)
(* f is the file: [path, size]; ok and bound are other_icons_checks_success *)
(* and whether rel_path is assigned, before the iteration; intr names the   *)
(* try block, if any, in which a KeyboardInterrupt is swallowed.           *)

NameMatches(f, name) == splitext(basename(f.path))[1] = name

\* line 117 true and rel_path unassigned: line 119 raises UnboundLocalError
IterationRaises(f, name, bound) == ~NameMatches(f, name) /\ ~bound

StandardLocation(split_path) ==
    Len(split_path) = 4 /\ split_path[3] = <<"apps">>

\* lines 143-149
ResAtExpectedPosition(split_path, intr) ==
    IF /\ StandardLocation(split_path)
       /\ ~ExtractRaises(split_path[2])
       /\ intr # "parse"
    THEN extract_res_from_path_component(split_path[2])
    ELSE NoRes

\* the component whose extraction a "guess" interrupt hits
GuessHit(split_path) ==
    LET good == {i \in 1..Len(split_path) : ~ExtractRaises(split_path[i])}
    IN  IF good = {} THEN 1 ELSE Min(good)

\* lines 157-163: the first component from which a tuple can be extracted
GuessedRes(split_path, intr) ==
    LET good == {i \in 1..Len(split_path) :
                    /\ ~ExtractRaises(split_path[i])
                    /\ ~(intr = "guess" /\ i = GuessHit(split_path))}
    IN  IF good = {}
        THEN NoRes
        ELSE extract_res_from_path_component(split_path[Min(good)])

\* FlagAfterLocation without the assignment of line 153
FlagAfterLocationKept(ok, res_at_position) == ok

\* lines 151-153
FlagAfterLocation(ok, res_at_position) ==
    IF res_at_position = NoRes THEN FALSE ELSE ok

\* path_res as lines 165-172 read it
PathRes(f, intr) ==
    LET split_path == split_rel_path(f.path)
        at_position == ResAtExpectedPosition(split_path, intr)
    IN  IF at_position = NoRes
        THEN GuessedRes(split_path, intr)
        ELSE at_position

\* the try blocks a matching file passes through
SwallowPoints(f) ==
    LET split_path == split_rel_path(f.path)
    IN  {"decode_check"}
        \cup (IF StandardLocation(split_path) THEN {"parse"} ELSE {})
        \cup (IF ResAtExpectedPosition(split_path, "none") = NoRes
              THEN {"guess"} ELSE {})
        \cup (IF PathRes(f, "none") # NoRes THEN {"decode_actual"} ELSE {})

\* FlagAfterFile without the comparison of lines 172-174
FlagAfterFileNoCrossCheck(f, name, ok, intr) ==
    IF ~NameMatches(f, name)
    THEN ok
    ELSE LET split_path == split_rel_path(f.path)
             ok1 == ok /\ _check_icon_for_valid_resolution(
                               f.size, intr = "decode_check")
             ok2 == FlagAfterLocation(
                        ok1, ResAtExpectedPosition(split_path, intr))
         IN  IF PathRes(f, intr) = NoRes THEN FALSE ELSE ok2

\* other_icons_checks_success after the iteration
FlagAfterFile(f, name, ok, intr) ==
    IF ~NameMatches(f, name)
    THEN ok
    ELSE LET split_path == split_rel_path(f.path)
             ok1 == ok /\ _check_icon_for_valid_resolution(
                               f.size, intr = "decode_check")
             ok2 == FlagAfterLocation(
                        ok1, ResAtExpectedPosition(split_path, intr))
             res == PathRes(f, intr)
         IN  IF res = NoRes
             THEN FALSE
             ELSE ok2 /\ _get_icon_res(f.size, intr = "decode_actual") = res

---------------------------------------------------------------------------
(* Bundle contents the steps read from the mounted file system *)

Resolutions == {<<48, 48>>, <<32, 32>>, <<100, 100>>}
Sizes == Resolutions \cup {NoRes}

\* *.desktop files in the bundle root, in glob order
DesktopListings == {<<>>, <<(<<"app", DOT, "desktop">>)>>}

DesktopTexts ==
    { <<ICON, "a">>,
      <<ICON, "a", NL, ICON, "b">>,
      <<"#", ICON, "b", NL, ICON, "a">>,
      <<"a", NL, ICON, "b">>,
      <<ICON, "a", SEP, "a">>,
      <<"a", NL>> }

A_PNG == <<"a", DOT, "png">>
A_SVG == <<"a", DOT, "svg">>
A_MD == <<"a", DOT, "md">>
B_PNG == <<"b", DOT, "png">>
RootNames == {A_PNG, A_SVG, A_MD, B_PNG}

\* args.path: the bundles named on the command line
CommandLines == {<<"one.AppImage">>, <<"one.AppImage", "two.AppImage">>}

\* a root directory: its file names, each with the size an image decoder
\* reports for it; the text file is no image
RootDirs ==
    {d \in UNION {[S -> Sizes] : S \in SUBSET RootNames} :
        /\ (A_MD \in DOMAIN d => d[A_MD] = NoRes)
        /\ (B_PNG \in DOMAIN d => d[B_PNG] = <<48, 48>>)}
EmptyDir == <<>>

\* The i-th file the usr/share/icons glob returns lies in the i-th theme, so
\* that no path is listed twice.
ThemeNames == <<"hicolor", "gnome", "breeze", "adwaita", "elementary",
                "moka", "papirus">>

D48x48 == <<"4", "8", "x", "4", "8">>
D100x100 == <<"1", "0", "0", "x", "1", "0", "0">>

\* paths below usr/share/icons/<t> whose base name is the icon name "a"
ThemeRelPaths(t) ==
    { <<(<<t>>), D48x48, (<<"apps">>), A_PNG>>,
      <<(<<t>>), D100x100, (<<"apps">>), A_PNG>>,
      <<(<<t>>), (<<"scalable">>), (<<"apps">>), A_SVG>>,
      <<(<<t>>), D48x48, A_PNG>>,
      <<(<<t>>), A_PNG>> }

\* an icon of another application
OtherAppIcon(t) ==
    [path |-> IconsRoot \o <<(<<t>>), D48x48, (<<"apps">>), B_PNG>>,
     size |-> <<48, 48>>]

ThemeFiles(i) ==
    {[path |-> IconsRoot \o rel, size |-> sz] :
        rel \in ThemeRelPaths(ThemeNames[i]), sz \in Sizes}
    \cup {OtherAppIcon(ThemeNames[i])}

NoFile == [path |-> <<>>, size |-> NoRes]

---------------------------------------------------------------------------
(* AppImage.mount() and the checks of appimagelint.checks other than        *)
(* IconsCheck are not part of the sources at hand.                          *)

\* entering the mount scope mounts the bundle
mount_enter(m) == m + 1
\* leaving it, on any path, unmounts it
mount_exit(m) == m - 1
\* an ABI check yields its Results without holding a mount across them
AbiResults(check) == <<[id |-> check]>>

---------------------------------------------------------------------------
(* TestResult and the orchestrator's bookkeeping *)

TestResult(success, id) == [success |-> success, id |-> id]

ChecksList == <<"GlibcABICheck", "GlibcxxABICheck", "IconsCheck">>

\* results = {}; the dict of one path holds the lists of its checks in the
\* order in which line 128 created them
EmptyDict == <<>>

\* results[path] = {}
NewPathDict(res, p) ==
    [q \in DOMAIN res \cup {p} |-> IF q = p THEN <<>> ELSE res[q]]

\* results[path][check] = []
NewResultList(res, p) == [res EXCEPT ![p] = Append(@, <<>>)]

\* results[path][check].append(testres)
AppendResult(res, p, c, testres) ==
    [res EXCEPT ![p][c] = Append(@, testres)]

\* ExitMountScope with the unmount placed after the last yield instead of in
\* a with statement
ExitMountScopeOnReturnOnly(m, how) ==
    IF how = "return" THEN mount_exit(m) ELSE m

\* The with statement of IconsCheck.run line 27 ends the scope when the body
\* returns ("return"), raises ("error") or is closed while suspended at a
\* yield ("close": the abandoned generator is finalised as soon as the for
\* loop of cli.run drops it).
ExitMountScope(m, how) == mount_exit(m)

Suspended == {"yield_root", "yield_dotdiricon", "yield_other"}
Running == {"root_icon", "other_loop"}

---------------------------------------------------------------------------
Init ==
    /\ args \in [path : CommandLines, json_report : BOOLEAN]
    /\ pc = "for_path"
    /\ path_idx = 0
    /\ check_idx = 0
    /\ results = EmptyDict
    /\ exit_status = NotExited
    /\ report_written = FALSE
    /\ mounts = 0
    /\ interrupted = FALSE
    /\ generator = "none"
    /\ desktop_files = Unset
    /\ desktop_file_contents = Unset
    /\ main_icon_name = NoName
    /\ root_dir = EmptyDir
    /\ root_icon_valid = FALSE
    /\ dotdiricon = NoRes
    /\ dotdiricon_valid = FALSE
    /\ abs_path = NoFile
    /\ nfiles = 0
    /\ rel_path_bound = FALSE
    /\ other_icons_checks_success = TRUE

\* the loop variable of cli.run line 111
path == args.path[path_idx]

cliVars == <<args, path_idx, exit_status, report_written>>
rootVars == <<desktop_files, desktop_file_contents, main_icon_name, root_dir,
              root_icon_valid>>
loopVars == <<abs_path, nfiles, rel_path_bound, other_icons_checks_success>>

\* the locals of a generator frame that does not exist (yet, or any more)
FrameFreed ==
    /\ desktop_files' = Unset
    /\ desktop_file_contents' = Unset
    /\ main_icon_name' = NoName
    /\ root_dir' = EmptyDir
    /\ root_icon_valid' = FALSE
    /\ dotdiricon' = NoRes
    /\ dotdiricon_valid' = FALSE
    /\ abs_path' = NoFile
    /\ nfiles' = 0
    /\ rel_path_bound' = FALSE
    /\ other_icons_checks_success' = TRUE

\* cli.run lines 111-122: the next bundle
StartBundle ==
    /\ pc = "for_path"
    /\ path_idx < Len(args.path)
    /\ path_idx' = path_idx + 1
    /\ results' = NewPathDict(results, args.path[path_idx + 1])
    /\ check_idx' = 0
    /\ pc' = "for_check"
    /\ UNCHANGED <<args, exit_status, report_written, mounts, interrupted,
                   generator, dotdiricon, dotdiricon_valid>>
    /\ UNCHANGED <<rootVars, loopVars>>

\* cli.run lines 124-132 for GlibcABICheck and GlibcxxABICheck
RunAbiCheck ==
    /\ pc = "for_check"
    /\ check_idx < 2
    /\ check_idx' = check_idx + 1
    /\ results' = [NewResultList(results, path) EXCEPT
                      ![path][check_idx + 1] =
                          AbiResults(ChecksList[check_idx + 1])]
    /\ UNCHANGED <<pc, mounts, interrupted, generator, dotdiricon,
                   dotdiricon_valid>>
    /\ UNCHANGED <<cliVars, rootVars, loopVars>>

\* cli.run lines 124-130 for IconsCheck, and IconsCheck.run lines 24-56: a
\* fresh generator frame, the mount, the desktop file and its Icon= entry
ReadDesktop ==
    /\ pc = "for_check"
    /\ check_idx = 2
    /\ check_idx' = 3
    /\ results' = NewResultList(results, path)
    /\ generator' = "active"
    /\ mounts' = mount_enter(mounts)
    /\ \E files \in DesktopListings, text \in DesktopTexts :
          /\ desktop_files' = files
          /\ IF files = <<>>
             THEN /\ desktop_file_contents' = Unset
                  /\ main_icon_name' = NoName
             ELSE /\ desktop_file_contents' = text
                  /\ main_icon_name' = ExtractIconName(text)
    /\ root_dir' = EmptyDir
    /\ root_icon_valid' = FALSE
    /\ UNCHANGED <<dotdiricon, dotdiricon_valid, loopVars>>
    /\ pc' = "root_icon"
    /\ UNCHANGED <<cliVars, interrupted>>

\* IconsCheck.run lines 58-97 up to the first yield, and cli.run lines 130-132
\* for its Result.  The root directory is globbed only when line 77 is reached.
CheckRootIcon(intr) ==
    /\ pc = "root_icon"
    /\ \E dir \in RootDirs :
          /\ root_dir' = IF main_icon_name = NoName \/ ContainsSep(main_icon_name)
                         THEN EmptyDir ELSE dir
          /\ intr = "decode" => RootIconDecodes(main_icon_name, dir)
          /\ root_icon_valid' = RootIconValid(main_icon_name, dir)
    /\ interrupted' = (interrupted \/ intr = "decode")
    /\ results' = AppendResult(results, path, 3,
                      TestResult(root_icon_valid', "icons.valid_appdir_root_icon"))
    /\ pc' = "yield_root"
    /\ UNCHANGED <<check_idx, mounts, generator, desktop_files,
                   desktop_file_contents, main_icon_name, dotdiricon,
                   dotdiricon_valid>>
    /\ UNCHANGED <<cliVars, loopVars>>

\* IconsCheck.run lines 99-101 and cli.run lines 130-132.  The locals of the
\* root-icon part that no later line reads are dropped here.
CheckDotDirIcon(intr) ==
    /\ pc = "yield_root"
    /\ \E size \in Sizes :
          /\ dotdiricon' = size
          /\ dotdiricon_valid' =
                 _check_icon_for_valid_resolution(size, intr = "decode")
    /\ interrupted' = (interrupted \/ intr = "decode")
    /\ results' = AppendResult(results, path, 3,
                      TestResult(dotdiricon_valid', "icons.valid_dotdiricon"))
    /\ desktop_file_contents' = Unset
    /\ root_dir' = EmptyDir
    /\ pc' = "yield_dotdiricon"
    /\ UNCHANGED <<check_idx, mounts, generator, desktop_files, main_icon_name,
                   root_icon_valid>>
    /\ UNCHANGED <<cliVars, loopVars>>

\* IconsCheck.run lines 103-109 on the first iteration, and one iteration of
\* the loop of lines 111-176 on the next file of the glob.  An
\* UnboundLocalError leaves the mount scope and cli.run, which catches
\* KeyboardInterrupt only: the interpreter ends the process with status 1.
ProcessOtherIcon(intr) ==
    /\ pc \in {"yield_dotdiricon", "other_loop"}
    /\ nfiles < MaxThemeFiles
    /\ \E f \in ThemeFiles(nfiles + 1) :
          /\ abs_path' = f
          /\ intr # "none" =>
                 NameMatches(f, main_icon_name) /\ intr \in SwallowPoints(f)
          /\ IF IterationRaises(f, main_icon_name, rel_path_bound)
             THEN /\ generator' = "raised"
                  /\ mounts' = ExitMountScope(mounts, "error")
                  /\ exit_status' = <<1>>
                  /\ pc' = "exit"
                  /\ UNCHANGED <<rel_path_bound, other_icons_checks_success>>
             ELSE /\ pc' = "other_loop"
                  /\ other_icons_checks_success' =
                         FlagAfterFile(f, main_icon_name,
                                       other_icons_checks_success, intr)
                  /\ rel_path_bound' =
                         (rel_path_bound \/ NameMatches(f, main_icon_name))
                  /\ UNCHANGED <<generator, mounts, exit_status>>
    /\ nfiles' = nfiles + 1
    /\ interrupted' = (interrupted \/ intr # "none")
    /\ dotdiricon' = NoRes
    /\ UNCHANGED <<args, path_idx, report_written, check_idx, results,
                   dotdiricon_valid>>
    /\ UNCHANGED rootVars

\* IconsCheck.run line 178 once the glob is exhausted, and cli.run 130-132
YieldOtherIcons ==
    /\ pc \in {"yield_dotdiricon", "other_loop"}
    /\ results' = AppendResult(results, path, 3,
                      TestResult(other_icons_checks_success,
                                 "icons.valid_other_icons"))
    /\ dotdiricon' = NoRes
    /\ pc' = "yield_other"
    /\ UNCHANGED <<check_idx, mounts, interrupted, generator, dotdiricon_valid>>
    /\ UNCHANGED <<cliVars, rootVars, loopVars>>

\* the generator is resumed after its last yield: the with block ends, the
\* generator is exhausted and its frame freed, and both for loops of cli.run
\* go on
FinishIconsCheck ==
    /\ pc = "yield_other"
    /\ mounts' = ExitMountScope(mounts, "return")
    /\ generator' = "exhausted"
    /\ pc' = "for_path"
    /\ FrameFreed
    /\ UNCHANGED <<check_idx, results, interrupted>>
    /\ UNCHANGED cliVars

\* cli.run lines 134-136 after the last bundle, and the return of run()
Finish ==
    /\ pc = "for_path"
    /\ path_idx = Len(args.path)
    /\ report_written' = args.json_report
    /\ exit_status' = <<0>>
    /\ pc' = "exit"
    /\ UNCHANGED <<args, path_idx, check_idx, results, mounts, interrupted,
                   generator, dotdiricon, dotdiricon_valid>>
    /\ UNCHANGED <<rootVars, loopVars>>

\* A KeyboardInterrupt that no bare except swallows, cli.run lines 138-140.
\* Raised inside the generator it unwinds the with block; raised in cli.run
\* while the generator is suspended, the for loop drops the generator, which
\* is closed at its yield.  Either way the frame is gone when line 139 runs.
KeyboardInterrupt ==
    /\ exit_status = NotExited
    /\ interrupted' = TRUE
    /\ IF pc \in Suspended
       THEN /\ generator' = "closed"
            /\ mounts' = ExitMountScope(mounts, "close")
       ELSE IF pc \in Running
       THEN /\ generator' = "raised"
            /\ mounts' = ExitMountScope(mounts, "error")
       ELSE UNCHANGED <<generator, mounts>>
    /\ exit_status' = <<2>>
    /\ pc' = "exit"
    /\ FrameFreed
    /\ UNCHANGED <<args, path_idx, report_written, check_idx, results>>

DecodeInterrupts == {"none", "decode"}
LoopInterrupts == {"none", "decode_check", "parse", "guess", "decode_actual"}

\* a run in which no KeyboardInterrupt is delivered
Next ==
    \/ StartBundle
    \/ RunAbiCheck
    \/ ReadDesktop
    \/ CheckRootIcon("none")
    \/ CheckDotDirIcon("none")
    \/ ProcessOtherIcon("none")
    \/ YieldOtherIcons
    \/ FinishIconsCheck
    \/ Finish

Spec == Init /\ [][Next]_vars

\* a run in which KeyboardInterrupts may be delivered at any point
NextInt ==
    \/ StartBundle
    \/ RunAbiCheck
    \/ ReadDesktop
    \/ \E intr \in DecodeInterrupts : CheckRootIcon(intr)
    \/ \E intr \in DecodeInterrupts : CheckDotDirIcon(intr)
    \/ \E intr \in LoopInterrupts : ProcessOtherIcon(intr)
    \/ YieldOtherIcons
    \/ FinishIconsCheck
    \/ Finish
    \/ KeyboardInterrupt

SpecInt == Init /\ [][NextInt]_vars

---------------------------------------------------------------------------
(* The Icon= extraction alone, on every desktop file of up to MaxTextLen   *)
(* tokens.                                                                 *)

Alphabet == {ICON, "a", "#", SEP, NL}
AllTexts == UNION {[1..n -> Alphabet] : n \in 0..MaxTextLen}

InitParse ==
    /\ args = [path |-> <<"one.AppImage">>, json_report |-> FALSE]
    /\ pc = "parse"
    /\ path_idx = 1
    /\ check_idx = 3
    /\ results = [p \in {"one.AppImage"} |->
                     <<AbiResults(ChecksList[1]), AbiResults(ChecksList[2]),
                       <<>>>>]
    /\ exit_status = NotExited
    /\ report_written = FALSE
    /\ mounts = mount_enter(0)
    /\ interrupted = FALSE
    /\ generator = "active"
    /\ desktop_files \in DesktopListings \ {<<>>}
    /\ desktop_file_contents \in AllTexts
    /\ main_icon_name = NoName
    /\ root_dir = EmptyDir
    /\ root_icon_valid = FALSE
    /\ dotdiricon = NoRes
    /\ dotdiricon_valid = FALSE
    /\ abs_path = NoFile
    /\ nfiles = 0
    /\ rel_path_bound = FALSE
    /\ other_icons_checks_success = TRUE

\* IconsCheck.run lines 51-56
ParseDesktop ==
    /\ pc = "parse"
    /\ main_icon_name' = ExtractIconName(desktop_file_contents)
    /\ pc' = "parsed"
    /\ UNCHANGED <<check_idx, results, mounts, interrupted, generator,
                   desktop_files, desktop_file_contents, root_dir,
                   root_icon_valid, dotdiricon, dotdiricon_valid>>
    /\ UNCHANGED <<cliVars, loopVars>>

NextParse == ParseDesktop

SpecParse == InitParse /\ [][NextParse]_vars

---------------------------------------------------------------------------
(* What the claims speak of *)

IconIds == <<"icons.valid_appdir_root_icon", "icons.valid_dotdiricon",
             "icons.valid_other_icons">>

Ids(list) == [i \in 1..Len(list) |-> list[i].id]

IsPrefix(s, t) == Len(s) <= Len(t) /\ s = SubSeq(t, 1, Len(s))

InIconsCheck == pc \in Suspended \cup Running

\* the Results of the IconsCheck invocation on bundle p, once it has begun
IconResults(p) == results[p][3]

\* both dimensions decoded and in the valid resolution set
ResolutionIsValid(size) ==
    /\ size # NoRes
    /\ size[1] \in _VALID_RESOLUTIONS
    /\ size[2] \in _VALID_RESOLUTIONS

BareName == main_icon_name # NoName /\ ~ContainsSep(main_icon_name)

\* root files named <icon-name>.<anything>
RootMatches ==
    {f \in DOMAIN root_dir :
        /\ Len(f) > Len(main_icon_name)
        /\ SubSeq(f, 1, Len(main_icon_name)) = main_icon_name
        /\ f[Len(main_icon_name) + 1] = DOT}

\* root files named <icon-name>.<ext>, ext one of png, xpm, svg, jpg
RootCandidates ==
    {f \in DOMAIN root_dir :
        \E e \in {"png", "xpm", "svg", "jpg"} :
            f = main_icon_name \o <<DOT, e>>}

RootResultYielded == pc = "yield_root"
RootResult == IconResults(path)[1]

\* a decimal number: digits only, at least one
IsNumber(s) == s # <<>> /\ \A i \in 1..Len(s) : s[i] \in Digits

\* the component reads <W>x<H>
IsWxH(comp) ==
    \E k \in 1..Len(comp) :
        /\ comp[k] = "x"
        /\ IsNumber(SubSeq(comp, 1, k - 1))
        /\ IsNumber(SubSeq(comp, k + 1, Len(comp)))

WxH(comp) ==
    LET k == CHOOSE k \in 1..Len(comp) : comp[k] = "x"
    IN  <<IntValue(SubSeq(comp, 1, k - 1)),
          IntValue(SubSeq(comp, k + 1, Len(comp)))>>

RelPath(f) == SubSeq(f.path, 4, Len(f.path))

\* the file's base name without extension is the declared icon name
Declared(f) ==
    LET fname == f.path[Len(f.path)]
        stems == {k \in 1..Len(fname) :
                     /\ fname[k] = DOT
                     /\ \A j \in (k + 1)..Len(fname) : fname[j] # DOT}
    IN  /\ stems # {}
        /\ SubSeq(fname, 1, Min(stems) - 1) = main_icon_name

\* <theme>/<W>x<H>/apps/<name>.<ext>
FourComponentShape(f) ==
    /\ Len(RelPath(f)) = 4
    /\ RelPath(f)[3] = <<"apps">>

StandardShape(f) == FourComponentShape(f) /\ IsWxH(RelPath(f)[2])

\* an iteration of the theme loop has just handled abs_path'
FileHandled == pc \in {"yield_dotdiricon", "other_loop"} /\ pc' = "other_loop"

---------------------------------------------------------------------------
(* C1: one IconsCheck invocation yields exactly the three Results, in      *)
(* order: while it runs, the identifiers yielded so far are a prefix of    *)
(* the three; once it has ended, they are all three.                       *)
C1_ExactlyThreeResults ==
    \A p \in DOMAIN results :
        Len(results[p]) = 3 =>
            /\ IsPrefix(Ids(IconResults(p)), IconIds)
            /\ (p # path \/ ~InIconsCheck) => Ids(IconResults(p)) = IconIds

(* C2: with a bare icon name and candidates <icon-name>.<ext> in the root, *)
(* the root-icon Result is success only if every candidate decodes to a    *)
(* valid resolution.                                                       *)
C2_RootIconNeedsAllCandidatesValid ==
    (RootResultYielded /\ BareName /\ RootCandidates # {} /\ RootResult.success)
        => \A f \in RootCandidates : ResolutionIsValid(root_dir[f])

(* C3: when the root holds files <icon-name>.* but none with a known image *)
(* extension, the root-icon Result is a failure.                           *)
C3_NoCandidateAfterFilterFails ==
    (RootResultYielded /\ BareName /\ RootMatches # {} /\ RootCandidates = {})
        => ~RootResult.success

(* C4: a declared-name theme file at <theme>/<W>x<H>/apps/<name>.<ext>      *)
(* leaves the aggregate at success if and only if its decoded resolution   *)
(* is (W, H) and W and H are valid resolutions.                            *)
C4_StandardFileCrossCheck ==
    [][(/\ FileHandled
        /\ other_icons_checks_success
        /\ Declared(abs_path')
        /\ StandardShape(abs_path'))
           => (other_icons_checks_success' <=>
                 /\ abs_path'.size = WxH(RelPath(abs_path')[2])
                 /\ ResolutionIsValid(WxH(RelPath(abs_path')[2])))]_vars

C4_Witness ==
    /\ pc = "other_loop"
    /\ nfiles = 1
    /\ Declared(abs_path)
    /\ StandardShape(abs_path)
    /\ abs_path.size = WxH(RelPath(abs_path)[2])
    /\ other_icons_checks_success

C6_RunSurvivesFailingChecks ==
    /\ exit_status \in {NotExited, <<0>>}
    /\ exit_status = <<0>> =>
           \A i \in 1..Len(args.path) :
               /\ args.path[i] \in DOMAIN results
               /\ Len(results[args.path[i]]) = 3

(* C7: at most one mount is held, and none once the generator has ended    *)
(* in any way, when the orchestrator is about to start a check or a        *)
(* bundle, or when the process has terminated.                             *)
C7_MountReleasedOnEveryExit ==
    /\ mounts \in {0, 1}
    /\ generator \in {"exhausted", "raised", "closed"} => mounts = 0
    /\ pc \in {"for_path", "for_check", "exit"} => mounts = 0

C7_Witness ==
    /\ generator = "closed"
    /\ exit_status = <<2>>
    /\ Len(IconResults(path)) = 2
    /\ mounts = 0

(* C8: with no desktop file in the root no icon name is extracted, and     *)
(* then, as when the extracted name contains "/", the root-icon Result is  *)
(* a failure.                                                              *)
C8_NoDesktopOrPathNameFails ==
    /\ (InIconsCheck /\ desktop_files = <<>>) =>
           /\ main_icon_name = NoName
           /\ pc = "root_icon" => desktop_file_contents = Unset
    /\ (/\ InIconsCheck
        /\ IconResults(path) # <<>>
        /\ desktop_files = <<>> \/ ContainsSep(main_icon_name))
           => ~RootResult.success

C8_Witness ==
    /\ pc = "yield_root"
    /\ ContainsSep(main_icon_name)
    /\ ~RootResult.success

(* C9: once a KeyboardInterrupt has been delivered the run is over: the    *)
(* process has exited with status 2 and no report has been written.        *)
C9_InterruptAbortsRun ==
    interrupted => (exit_status = <<2>> /\ ~report_written)

\* the lines of a text
RECURSIVE Lines(_)
Lines(text) ==
    LET nls == {i \in 1..Len(text) : text[i] = NL}
    IN  IF nls = {}
        THEN <<text>>
        ELSE <<SubSeq(text, 1, Min(nls) - 1)>>
                 \o Lines(SubSeq(text, Min(nls) + 1, Len(text)))

\* the remainder of the first line that begins with Icon= and goes on
FirstIconLineValue(text) ==
    LET ls == Lines(text)
        hits == {i \in 1..Len(ls) : Len(ls[i]) >= 2 /\ ls[i][1] = ICON}
    IN  IF hits = {} THEN NoName ELSE Tail(ls[Min(hits)])

(* C10: the declared icon name is the remainder of the first line of the   *)
(* desktop file that begins with Icon=; a line in which Icon= follows      *)
(* other characters supplies no name.                                      *)
C10_IconNameFromLineStart ==
    pc = "parsed" => main_icon_name = FirstIconLineValue(desktop_file_contents)

====
